---- MODULE Spec2Model ----
(***************************************************************************)
(* Model of src/logging.c (GMediaRender logging facility).                 *)
(*                                                                         *)
(* Bytes are modelled as sequences of tokens: a token is a short piece of  *)
(* text ("INFO  ", "0", "\n", ...).  A file is the sequence of tokens that *)
(* has been written to it.  Descriptors are integers, -1 is "not open".    *)
(* write()/writev() either transfer all their bytes or fail; their result  *)
(* is ignored by the code, so a failure only means that the file does not  *)
(* change.  ftruncate() succeeds on an open descriptor of a regular file   *)
(* and fails (EBADF) on -1.                                                *)
(***************************************************************************)
EXTENDS Integers, Sequences, FiniteSets, TLC

VARIABLES
    log_fd,               \* static int log_fd
    last_played_fd,       \* static int last_played_fd
    playback_fd,          \* static int playback_fd
    enable_color,         \* static int enable_color
    info_markup_start_,   \* static const char *info_markup_start_
    error_markup_start_,  \* static const char *error_markup_start_
    markup_end_,          \* static const char *markup_end_
    debug_level,          \* extern int debug_level (config.h)
    nextfd,               \* lowest descriptor number open() hands out next
    tty,                  \* descriptors for which isatty() is 1
    content,              \* descriptor -> bytes of the file behind it
    emitted,              \* write calls issued by the most recent call
    initArgs,             \* arguments and open outcomes of the latest Log_init
    last,                 \* the most recent call and its arguments
    inits,                \* number of Log_init calls so far
    calls                 \* number of other calls so far

vars == <<log_fd, last_played_fd, playback_fd, enable_color,
          info_markup_start_, error_markup_start_, markup_end_,
          debug_level, nextfd, tty, content, emitted, initArgs, last,
          inits, calls>>

logger == <<log_fd, last_played_fd, playback_fd, enable_color,
            info_markup_start_, error_markup_start_, markup_end_>>

env == <<debug_level, nextfd, tty>>

----------------------------------------------------------------------------
(* Bounds of the model *)

MaxCalls == 2

MaxInits == 2

----------------------------------------------------------------------------
(* Constants of the program *)

NL == "\n"

STDERR_FILENO == 2

kInfoHighlight == <<"ESC[1m", "INFO  ">>

kErrorHighlight == <<"ESC[1m", "ESC[31m", "ERROR ">>

kTermReset == <<"ESC[0m">>

PlainInfo == <<"INFO  ">>

PlainError == <<"ERROR ">>

PlainEnd == <<>>

AnsiTokens == {"ESC[1m", "ESC[31m", "ESC[0m"}

----------------------------------------------------------------------------
(* Inputs *)

\* rendered messages: empty, no newline, one newline, several newlines
Messages == {<<>>, <<"a">>, <<"a", NL>>, <<"a", NL, NL>>}

Categories == {"main"}

Levels == {0, 1}

DebugLevels == {-1, 0}

NowTimes == {3661}

\* time_t values handed to log_last_playback
PlayStarts == {0, 90000}

\* <<playstart, playend>> handed to log_playback_duration
Intervals == {<<0, 0>>, <<5, 3730>>, <<0, 90000>>, <<3730, 5>>}

\* what a path argument is and how its open() ends
LogKinds == {"absent", "fail", "file", "tty"}

FileKinds == {"absent", "fail", "file"}

\* what a state file may hold before it is opened
OldContents == {<<>>, <<"old", NL>>}

----------------------------------------------------------------------------
(* Formatting *)

DigitChars == <<"0", "1", "2", "3", "4", "5", "6", "7", "8", "9">>

RECURSIVE DecNat(_)
DecNat(n) == IF n < 10 THEN <<DigitChars[n + 1]>>
             ELSE DecNat(n \div 10) \o <<DigitChars[(n % 10) + 1]>>

\* printf "%d"
FmtD(n) == IF n < 0 THEN <<"-">> \o DecNat(-n) ELSE DecNat(n)

\* printf "%02d"
Fmt02d(n) == IF n < 0 THEN FmtD(n)
             ELSE IF n < 10 THEN <<"0">> \o DecNat(n) ELSE DecNat(n)

\* C integer division and remainder (truncation toward zero)
CDiv(a, b) == IF a >= 0 THEN a \div b ELSE -((-a) \div b)

CMod(a, b) == a - b * CDiv(a, b)

\* strftime "%F %T" of a broken-down time, for 0 <= t < 31 days after the epoch
FmtTime(t) ==
    <<"1970", "-", "01", "-">> \o Fmt02d(1 + (t \div 86400)) \o <<" ">>
    \o Fmt02d((t % 86400) \div 3600) \o <<":">>
    \o Fmt02d((t % 3600) \div 60) \o <<":">> \o Fmt02d(t % 60)

----------------------------------------------------------------------------
(* Operating system *)

isatty(fd, ttys) == IF fd \in ttys THEN 1 ELSE 0

\* write(fd, bytes) / writev(fd, ...) under O_APPEND
WriteTo(c, fd, bytes, ok) ==
    IF ok /\ fd \in DOMAIN c THEN [c EXCEPT ![fd] = @ \o bytes] ELSE c

\* ftruncate(fd, 0)
Truncate(c, fd) ==
    IF fd \in DOMAIN c THEN [c EXCEPT ![fd] = <<>>] ELSE c

WriteRec(fd, bytes, ok) ==
    [fd |-> fd, bytes |-> bytes, ok |-> ok /\ fd >= 0]

RECURSIVE ApplyWrites(_, _)
\* the files after the write calls ws, in order
ApplyWrites(c, ws) ==
    IF ws = <<>> THEN c
    ELSE ApplyWrites(WriteTo(c, ws[1].fd, ws[1].bytes, ws[1].ok), Tail(ws))

\* perror(s)
Perror(s) == <<s, ": ", "strerror", NL>>

NoCall == [op |-> "none", category |-> "", msg |-> <<>>, level |-> 0,
           start |-> 0, end |-> 0]

----------------------------------------------------------------------------

Init ==
    /\ log_fd = -1
    /\ last_played_fd = -1
    /\ playback_fd = -1
    /\ enable_color = 0
    /\ info_markup_start_ = PlainInfo
    /\ error_markup_start_ = PlainError
    /\ markup_end_ = PlainEnd
    /\ debug_level \in DebugLevels
    /\ nextfd = 3
    /\ tty = {}
    /\ content = (STDERR_FILENO :> <<>>)
    /\ emitted = <<>>
    /\ initArgs = [log |-> "absent", lp |-> "absent", pb |-> "absent"]
    /\ last = NoCall
    /\ inits = 0
    /\ calls = 0

----------------------------------------------------------------------------
(* Log_init *)

\* open(path, O_CREAT|O_APPEND|O_WRONLY, 0644): the new descriptor, or -1
open(kind, n) == IF kind \in {"file", "tty"} THEN n ELSE -1

\* the descriptor a destination holds after its "if (path != NULL)" block
OpenedFd(kind, cur, n) == IF kind = "absent" THEN cur ELSE open(kind, n)

\* the block's "return" is taken
OpenFailed(kind, n) == kind # "absent" /\ open(kind, n) < 0

\* mutant: the markup pointers are never switched to the highlighted variants
MarkupNeverSet(color, cur, highlight) == cur

\* lines 82-86: a markup pointer after "if (enable_color) { ... }"
MarkupAfterInit(color, cur, highlight) == IF color # 0 THEN highlight ELSE cur

Log_init(filename, last_played_file, playback_time_file, old_lp, old_pb) ==
    LET fd1    == OpenedFd(filename, log_fd, nextfd)
        fail1  == OpenFailed(filename, nextfd)
        n1     == IF filename \in {"file", "tty"} THEN nextfd + 1 ELSE nextfd
        go2    == ~fail1
        fd2    == IF go2 THEN OpenedFd(last_played_file, last_played_fd, n1)
                  ELSE last_played_fd
        fail2  == go2 /\ OpenFailed(last_played_file, n1)
        n2     == IF go2 /\ last_played_file = "file" THEN n1 + 1 ELSE n1
        go3    == go2 /\ ~fail2
        fd3    == IF go3 THEN OpenedFd(playback_time_file, playback_fd, n2)
                  ELSE playback_fd
        fail3  == go3 /\ OpenFailed(playback_time_file, n2)
        n3     == IF go3 /\ playback_time_file = "file" THEN n2 + 1 ELSE n2
        go4    == go3 /\ ~fail3
        ttys   == IF filename = "tty" THEN tty \cup {fd1} ELSE tty
        color  == IF go4 THEN isatty(fd1, ttys) ELSE enable_color
        errs   == (IF fail1 THEN <<WriteRec(STDERR_FILENO, Perror("Cannot open logfile"), TRUE)>> ELSE <<>>)
                  \o (IF fail2 THEN <<WriteRec(STDERR_FILENO, Perror("Cannot open last played file"), TRUE)>> ELSE <<>>)
                  \o (IF fail3 THEN <<WriteRec(STDERR_FILENO, Perror("Cannot open playback time file"), TRUE)>> ELSE <<>>)
        c1     == IF filename \in {"file", "tty"} THEN content @@ (fd1 :> <<>>) ELSE content
        c2     == IF go2 /\ last_played_file = "file" THEN c1 @@ (fd2 :> old_lp) ELSE c1
        c3     == IF go3 /\ playback_time_file = "file" THEN c2 @@ (fd3 :> old_pb) ELSE c2
    IN  /\ log_fd' = fd1
        /\ last_played_fd' = fd2
        /\ playback_fd' = fd3
        /\ nextfd' = n3
        /\ tty' = ttys
        /\ enable_color' = color
        /\ info_markup_start_' =
               IF go4 THEN MarkupAfterInit(color, info_markup_start_, kInfoHighlight)
               ELSE info_markup_start_
        /\ error_markup_start_' =
               IF go4 THEN MarkupAfterInit(color, error_markup_start_, kErrorHighlight)
               ELSE error_markup_start_
        /\ markup_end_' =
               IF go4 THEN MarkupAfterInit(color, markup_end_, kTermReset)
               ELSE markup_end_
        /\ emitted' = errs
        /\ content' = ApplyWrites(c3, errs)
        /\ initArgs' = [log |-> filename, lp |-> last_played_file,
                        pb |-> playback_time_file]
        /\ last' = [NoCall EXCEPT !.op = "Log_init"]
        /\ inits' = inits + 1
        /\ UNCHANGED <<debug_level, calls>>

\* a file that is not opened has no content to choose
OldFor(kind, reached) == IF kind = "file" /\ reached THEN OldContents ELSE {<<>>}

InitCall ==
    \E filename \in LogKinds, last_played_file \in FileKinds,
       playback_time_file \in FileKinds :
      \E old_lp \in OldFor(last_played_file, filename # "fail"),
         old_pb \in OldFor(playback_time_file,
                           filename # "fail" /\ last_played_file # "fail") :
        Log_init(filename, last_played_file, playback_time_file, old_lp, old_pb)

\* the one call the program makes at startup
Initialize == inits = 0 /\ InitCall

\* a further call (unsupported use)
Reinitialize == inits >= 1 /\ inits < MaxInits /\ InitCall

----------------------------------------------------------------------------
(* Queries *)

Log_color_allowed == enable_color

Log_info_enabled == IF log_fd >= 0 THEN 1 ELSE 0

Log_error_enabled == 1

----------------------------------------------------------------------------
(* Line emission *)

\* parts[0]: "%s[%s | %s]%s " of markup_start, "%F %T" of now, category, markup_end_
Prefix(markup_start, category, now) ==
    markup_start \o <<"[">> \o FmtTime(now) \o <<" | ", category, "]">>
    \o markup_end_ \o <<" ">>

\* mutant: the newline test looks at the first byte of the message
NewlineAtFront(msg) == Len(msg) > 0 /\ msg[1] = NL

already_newline(msg) == Len(msg) > 0 /\ msg[Len(msg)] = NL

\* the iovec parts handed to writev: 2 of them when already_newline, else 3
LineBytes(markup_start, category, msg, now) ==
    Prefix(markup_start, category, now) \o msg
    \o (IF already_newline(msg) THEN <<>> ELSE <<NL>>)

\* the writev call of Log_internal
Log_internal(fd, markup_start, category, msg, now, ok) ==
    WriteRec(fd, LineBytes(markup_start, category, msg, now), ok)

\* the descriptor Log_error and print_log write to
ErrTarget == IF log_fd < 0 THEN STDERR_FILENO ELSE log_fd

\* mutant: Log_info falls back to standard error the way Log_error does
Log_info_fallback(category, msg, now, ok) ==
    <<Log_internal(ErrTarget, info_markup_start_, category, msg, now, ok)>>

Log_info_writes(category, msg, now, ok) ==
    IF log_fd < 0 THEN <<>>
    ELSE <<Log_internal(log_fd, info_markup_start_, category, msg, now, ok)>>

Log_error_writes(category, msg, now, ok) ==
    <<Log_internal(ErrTarget, error_markup_start_, category, msg, now, ok)>>

\* mutant: the level test is off by one
print_log_strict(level, category, msg, now, ok) ==
    IF level >= debug_level THEN <<>>
    ELSE <<Log_internal(ErrTarget, info_markup_start_, category, msg, now, ok)>>

print_log_writes(level, category, msg, now, ok) ==
    IF level > debug_level THEN <<>>
    ELSE <<Log_internal(ErrTarget, info_markup_start_, category, msg, now, ok)>>

CanCall == inits >= 1 /\ calls < MaxCalls

Finish(op, category, msg, level, start, end) ==
    /\ last' = [op |-> op, category |-> category, msg |-> msg, level |-> level,
                start |-> start, end |-> end]
    /\ calls' = calls + 1
    /\ UNCHANGED <<logger, env, initArgs, inits>>

Log_info ==
    /\ CanCall
    /\ \E category \in Categories, msg \in Messages, now \in NowTimes,
          ok \in BOOLEAN :
         /\ emitted' = Log_info_writes(category, msg, now, ok)
         /\ content' = ApplyWrites(content, emitted')
         /\ Finish("Log_info", category, msg, 0, 0, 0)

Log_error ==
    /\ CanCall
    /\ \E category \in Categories, msg \in Messages, now \in NowTimes,
          ok \in BOOLEAN :
         /\ emitted' = Log_error_writes(category, msg, now, ok)
         /\ content' = ApplyWrites(content, emitted')
         /\ Finish("Log_error", category, msg, 0, 0, 0)

print_log ==
    /\ CanCall
    /\ \E level \in Levels, category \in Categories, msg \in Messages,
          now \in NowTimes, ok \in BOOLEAN :
         /\ emitted' = print_log_writes(level, category, msg, now, ok)
         /\ content' = ApplyWrites(content, emitted')
         /\ Finish("print_log", category, msg, level, 0, 0)

----------------------------------------------------------------------------
(* State files *)

\* sprintf(buffer, "UPNP_LAST_PLAYED='%s'\n", "%F %T" of gmtime(playstart))
LastPlayedLine(playstart) ==
    <<"UPNP_LAST_PLAYED='">> \o FmtTime(playstart) \o <<"'", NL>>

\* mutant: the file is not truncated before the write
RewriteNoTruncate(c, fd, buffer, ok) == WriteTo(c, fd, buffer, ok)

\* ftruncate(fd, 0); write(fd, buffer, buflength);
Rewrite(c, fd, buffer, ok) == WriteTo(Truncate(c, fd), fd, buffer, ok)

\* mutant: a failed write makes the function give up its descriptor
log_last_playback_drops_fd ==
    /\ CanCall
    /\ \E playstart \in PlayStarts, ok \in BOOLEAN :
         /\ emitted' = <<WriteRec(last_played_fd, LastPlayedLine(playstart), ok)>>
         /\ content' = Rewrite(content, last_played_fd, LastPlayedLine(playstart), ok)
         /\ last_played_fd' = IF ok THEN last_played_fd ELSE -1
         /\ last' = [NoCall EXCEPT !.op = "log_last_playback", !.start = playstart]
         /\ calls' = calls + 1
         /\ UNCHANGED <<log_fd, playback_fd, enable_color, info_markup_start_,
                        error_markup_start_, markup_end_, env, initArgs, inits>>

log_last_playback ==
    /\ CanCall
    /\ \E playstart \in PlayStarts, ok \in BOOLEAN :
         /\ emitted' = <<WriteRec(last_played_fd, LastPlayedLine(playstart), ok)>>
         /\ content' = Rewrite(content, last_played_fd, LastPlayedLine(playstart), ok)
         /\ Finish("log_last_playback", "", <<>>, 0, playstart, 0)

\* (int)difftime(playend, playstart)
rawSeconds(playstart, playend) == playend - playstart

\* mutant: hours are reduced modulo 24
HoursOfDay(raw) == CMod(CDiv(raw, 3600), 24)

elapsedHours(raw) == CDiv(raw, 3600)

elapsedMin(raw) == CMod(CDiv(raw, 60), 60)

elapsedSec(raw) == CMod(raw, 60)

\* sprintf(buffer, "UPNP_TOTAL=%d\n", rawSeconds)
TotalLine(raw) == <<"UPNP_TOTAL=">> \o FmtD(raw) \o <<NL>>

\* "Total playing time %02d:%02d:%02d\n"
PlayingTimeMsg(raw) ==
    <<"Total playing time ">> \o Fmt02d(elapsedHours(raw)) \o <<":">>
    \o Fmt02d(elapsedMin(raw)) \o <<":">> \o Fmt02d(elapsedSec(raw)) \o <<NL>>

log_playback_duration ==
    /\ CanCall
    /\ \E iv \in Intervals, now \in NowTimes, ok \in BOOLEAN, oklog \in BOOLEAN :
         LET playstart == iv[1]
             playend == iv[2]
             raw == rawSeconds(playstart, playend)
             line == print_log_writes(0, "transport", PlayingTimeMsg(raw), now, oklog)
         IN  /\ emitted' = <<WriteRec(playback_fd, TotalLine(raw), ok)>> \o line
             /\ content' = ApplyWrites(
                               Rewrite(content, playback_fd, TotalLine(raw), ok),
                               line)
             /\ Finish("log_playback_duration", "transport", PlayingTimeMsg(raw),
                       0, playstart, playend)

----------------------------------------------------------------------------

Next ==
    \/ Initialize
    \/ Log_info
    \/ Log_error
    \/ print_log
    \/ log_last_playback
    \/ log_playback_duration

Spec == Init /\ [][Next]_vars

NextReinit ==
    \/ Initialize
    \/ Reinitialize

SpecReinit == Init /\ [][NextReinit]_vars

----------------------------------------------------------------------------
(* Vocabulary of the properties *)

Opened(kind) == kind \in {"file", "tty"}

HasAnsi(bytes) == \E i \in 1..Len(bytes) : bytes[i] \in AnsiTokens

StartsWith(bytes, pre) ==
    Len(bytes) >= Len(pre) /\ SubSeq(bytes, 1, Len(pre)) = pre

EndsWith(bytes, suf) ==
    Len(bytes) >= Len(suf)
    /\ SubSeq(bytes, Len(bytes) - Len(suf) + 1, Len(bytes)) = suf

RECURSIVE TrailingNewlines(_)
TrailingNewlines(bytes) ==
    IF bytes = <<>> \/ bytes[Len(bytes)] # NL THEN 0
    ELSE 1 + TrailingNewlines(SubSeq(bytes, 1, Len(bytes) - 1))

\* the write calls of the most recent call that carry a log line
LogLines ==
    IF last.op \in {"Log_info", "Log_error", "print_log"} THEN emitted
    ELSE IF last.op = "log_playback_duration" THEN Tail(emitted)
    ELSE <<>>

\* the most recent call issued exactly one write: a line for fd that starts
\* with markup and carries the call's message
OneLineTo(fd, markup) ==
    /\ Len(emitted) = 1
    /\ emitted[1].fd = fd
    /\ StartsWith(emitted[1].bytes, markup \o <<"[">>)
    /\ \/ EndsWith(emitted[1].bytes, <<" ">> \o last.msg)
       \/ EndsWith(emitted[1].bytes, <<" ">> \o last.msg \o <<NL>>)

\* this step is a call of op
Calls(op) == calls' = calls + 1 /\ last'.op = op

\* the files other than those behind the descriptors in fds do not change
OnlyChanges(fds) ==
    /\ DOMAIN content' = DOMAIN content
    /\ \A fd \in DOMAIN content \ fds : content'[fd] = content[fd]

\* the file behind fd does not change or grows by exactly bytes
Appends(fd, bytes) == content'[fd] \in {content[fd], content[fd] \o bytes}

----------------------------------------------------------------------------
(* C1: Log_init treats the three destinations independently: after it      *)
(* returns, a destination whose open fails is unconfigured and every       *)
(* provided destination whose open would succeed is configured.            *)
C1_Independent ==
    inits = 1 =>
      /\ initArgs.log = "fail" => log_fd < 0
      /\ initArgs.lp = "fail" => last_played_fd < 0
      /\ initArgs.pb = "fail" => playback_fd < 0
      /\ Opened(initArgs.log) => log_fd >= 0
      /\ Opened(initArgs.lp) => last_played_fd >= 0
      /\ Opened(initArgs.pb) => playback_fd >= 0

(* C2: log_last_playback with no last-played file and                      *)
(* log_playback_duration with no playback-duration file issue no write to  *)
(* any other destination (general log, standard error, other state file).  *)
C2_NoOtherWrites ==
    inits = 1 =>
      /\ (last.op = "log_last_playback" /\ last_played_fd < 0) =>
             \A i \in 1..Len(emitted) : emitted[i].fd < 0
      /\ (last.op = "log_playback_duration" /\ playback_fd < 0) =>
             \A i \in 1..Len(emitted) : emitted[i].fd < 0

(* C3: after Log_init, Log_info_enabled is false exactly when the general  *)
(* log was not successfully opened; then Log_info writes nothing anywhere  *)
(* and Log_error sends its line to standard error; when the general log is *)
(* configured both send their line to it and nothing to standard error.    *)
C3_State ==
    inits = 1 =>
      /\ (Log_info_enabled = 0) <=> ~Opened(initArgs.log)
      /\ (last.op = "Log_info" /\ log_fd < 0) => emitted = <<>>
      /\ (last.op = "Log_error" /\ log_fd < 0) =>
             OneLineTo(STDERR_FILENO, error_markup_start_)
      /\ (last.op = "Log_info" /\ log_fd >= 0) =>
             log_fd # STDERR_FILENO /\ OneLineTo(log_fd, info_markup_start_)
      /\ (last.op = "Log_error" /\ log_fd >= 0) =>
             log_fd # STDERR_FILENO /\ OneLineTo(log_fd, error_markup_start_)

C3_Step ==
    /\ (Calls("Log_info") /\ log_fd < 0) => content' = content
    /\ (Calls("Log_error") /\ log_fd < 0) =>
           /\ OnlyChanges({STDERR_FILENO})
           /\ Appends(STDERR_FILENO, emitted'[1].bytes)
    /\ ((Calls("Log_info") \/ Calls("Log_error")) /\ log_fd >= 0) =>
           /\ OnlyChanges({log_fd})
           /\ Appends(log_fd, emitted'[1].bytes)

(* C3: C3_State holds in every state and C3_Step of every step. *)
C3_InfoEnabled == []C3_State /\ [][C3_Step]_vars

C3_Witness ==
    /\ inits = 1 /\ log_fd < 0 /\ Log_info_enabled = 0
    /\ last.op = "Log_error" /\ Len(emitted) = 1 /\ emitted[1].ok
    /\ content[STDERR_FILENO] # <<>>

(* C4 as stated: after a log_last_playback (log_playback_duration) call on *)
(* a configured destination the file holds exactly one line, that call's   *)
(* UPNP_LAST_PLAYED (UPNP_TOTAL) line.                                     *)
C4_SingleRecord ==
    inits = 1 =>
      /\ (last.op = "log_last_playback" /\ last_played_fd >= 0) =>
             content[last_played_fd] = LastPlayedLine(last.start)
      /\ (last.op = "log_playback_duration" /\ playback_fd >= 0) =>
             content[playback_fd] = TotalLine(last.end - last.start)

(* C4 amended: after such a call the file holds nothing from before the    *)
(* call: it is exactly the call's line when the write succeeded and empty  *)
(* when the write failed; no other call changes a state file.              *)
C4_State ==
    inits = 1 =>
      /\ (last.op = "log_last_playback" /\ last_played_fd >= 0) =>
             /\ content[last_played_fd] =
                    IF emitted[1].ok THEN LastPlayedLine(last.start) ELSE <<>>
             /\ (emitted[1].ok /\ last.start = 90000) =>
                    content[last_played_fd] =
                        <<"UPNP_LAST_PLAYED='", "1970", "-", "01", "-", "0", "2",
                          " ", "0", "1", ":", "0", "0", ":", "0", "0", "'", NL>>
      /\ (last.op = "log_playback_duration" /\ playback_fd >= 0) =>
             /\ content[playback_fd] =
                    IF emitted[1].ok THEN TotalLine(last.end - last.start)
                    ELSE <<>>
             /\ (emitted[1].ok /\ last.end - last.start = 3725) =>
                    content[playback_fd] =
                        <<"UPNP_TOTAL=", "3", "7", "2", "5", NL>>

C4_Step ==
    /\ (last_played_fd >= 0 /\ calls' = calls + 1
        /\ last'.op # "log_last_playback") =>
           content'[last_played_fd] = content[last_played_fd]
    /\ (playback_fd >= 0 /\ calls' = calls + 1
        /\ last'.op # "log_playback_duration") =>
           content'[playback_fd] = content[playback_fd]

(* C4 amended: C4_State holds in every state and C4_Step of every step. *)
C4_LatestRecordOnly == []C4_State /\ [][C4_Step]_vars

C4_Witness ==
    /\ inits = 1 /\ calls = 2 /\ last_played_fd >= 0
    /\ last.op = "log_last_playback" /\ last.start = 90000 /\ emitted[1].ok
    /\ TrailingNewlines(content[last_played_fd]) = 1

(* C5 as stated: the bytes of every emitted log line end with exactly one  *)
(* newline, also for a message that ends in several newlines.              *)
C5_ExactlyOneNewline ==
    \A i \in 1..Len(LogLines) : TrailingNewlines(LogLines[i].bytes) = 1

(* C5 amended: one newline is appended when the message does not end with  *)
(* a newline and none when it does, so the line ends with as many newlines *)
(* as the message has at its end, and with one when it has none.           *)
C5_NewlineRule ==
    \A i \in 1..Len(LogLines) :
      LET bytes == LogLines[i].bytes
          n == TrailingNewlines(last.msg)
      IN  /\ TrailingNewlines(bytes) = IF n = 0 THEN 1 ELSE n
          /\ EndsWith(bytes, <<" ">> \o last.msg
                              \o (IF n = 0 THEN <<NL>> ELSE <<>>))

C5_Witness ==
    /\ last.op = "Log_error" /\ last.msg = <<"a", NL, NL>>
    /\ Len(emitted) = 1 /\ TrailingNewlines(emitted[1].bytes) = 2

(* C6: after Log_init, Log_color_allowed is true and lines carry ANSI      *)
(* markup if and only if the general log was opened and is a terminal,     *)
(* whatever the other two paths and their open outcomes.                   *)
C6_ColorIffTty ==
    inits = 1 =>
      /\ (Log_color_allowed # 0) <=> (initArgs.log = "tty")
      /\ \A i \in 1..Len(LogLines) :
           HasAnsi(LogLines[i].bytes) <=> (initArgs.log = "tty")

(* C7 as stated: every log_playback_duration call on a configured          *)
(* destination with s = end - start >= 0 emits the "transport" line        *)
(* "Total playing time HH:MM:SS", whatever the debug level.                *)
C7_AlwaysEmits ==
    (inits = 1 /\ last.op = "log_playback_duration" /\ playback_fd >= 0
     /\ last.end - last.start >= 0) =>
        /\ Len(emitted) = 2
        /\ EndsWith(emitted[2].bytes, <<"Total playing time ">>
               \o Fmt02d((last.end - last.start) \div 3600) \o <<":">>
               \o Fmt02d(((last.end - last.start) \div 60) % 60) \o <<":">>
               \o Fmt02d((last.end - last.start) % 60) \o <<NL>>)

(* C7 amended: the line is emitted when the debug level is at least 0, to  *)
(* the general log or else standard error, with HH = s div 3600 (not       *)
(* reduced modulo 24), MM = (s div 60) mod 60, SS = s mod 60; with a       *)
(* negative debug level the call emits no log line.                        *)
C7_PlayingTime ==
    (inits = 1 /\ last.op = "log_playback_duration" /\ playback_fd >= 0
     /\ last.end - last.start >= 0) =>
        LET s == last.end - last.start
            time(hh, mm, ss) == <<"transport", "]">> \o markup_end_
                                \o <<" ", "Total playing time ">> \o hh
                                \o <<":">> \o mm \o <<":">> \o ss \o <<NL>>
        IN  IF debug_level < 0 THEN Len(emitted) = 1
            ELSE /\ Len(emitted) = 2
                 /\ emitted[2].fd = ErrTarget
                 /\ StartsWith(emitted[2].bytes, info_markup_start_ \o <<"[">>)
                 /\ EndsWith(emitted[2].bytes,
                        time(Fmt02d(s \div 3600), Fmt02d((s \div 60) % 60),
                             Fmt02d(s % 60)))
                 /\ elapsedHours(s) * 3600 + elapsedMin(s) * 60 + elapsedSec(s) = s
                 /\ s = 3725 =>
                      EndsWith(emitted[2].bytes,
                          time(<<"0", "1">>, <<"0", "2">>, <<"0", "5">>))
                 /\ s = 90000 =>
                      EndsWith(emitted[2].bytes,
                          time(<<"2", "5">>, <<"0", "0">>, <<"0", "0">>))

C7_Witness ==
    /\ inits = 1 /\ last.op = "log_playback_duration" /\ playback_fd >= 0
    /\ last.end - last.start = 90000 /\ debug_level >= 0
    /\ Len(emitted) = 2 /\ emitted[2].ok

(* C8: print_log writes nothing when level exceeds debug_level; otherwise  *)
(* it emits one line with the informational prefix to the general log if   *)
(* configured, else to standard error, and never to a state file.          *)
C8_State ==
    (inits = 1 /\ last.op = "print_log") =>
        IF last.level > debug_level THEN emitted = <<>>
        ELSE /\ OneLineTo(IF log_fd >= 0 THEN log_fd ELSE STDERR_FILENO,
                          info_markup_start_)
             /\ emitted[1].fd \notin {last_played_fd, playback_fd}

C8_Step ==
    Calls("print_log") =>
        IF last'.level > debug_level THEN content' = content
        ELSE /\ OnlyChanges({IF log_fd >= 0 THEN log_fd ELSE STDERR_FILENO})
             /\ Appends(IF log_fd >= 0 THEN log_fd ELSE STDERR_FILENO,
                        emitted'[1].bytes)

(* C8: C8_State holds in every state and C8_Step of every step. *)
C8_LevelFilter == []C8_State /\ [][C8_Step]_vars

C8_Witness ==
    /\ inits = 1 /\ last.op = "print_log" /\ last.level <= debug_level
    /\ log_fd < 0 /\ Len(emitted) = 1 /\ emitted[1].ok
    /\ content[STDERR_FILENO] # <<>>

(* C9: once Log_init has returned, no logging or recording call, also one  *)
(* whose write fails, changes the color flag, the markup strings or the    *)
(* three descriptors.                                                      *)
C9_Frame ==
    [][(inits >= 1 /\ calls' = calls + 1) => logger' = logger]_vars

C9_Witness ==
    /\ inits = 1 /\ calls = 2 /\ last_played_fd >= 0 /\ enable_color # 0
    /\ last.op = "log_last_playback" /\ ~emitted[1].ok

(* C10 as stated: in every reachable state, also after repeated Log_init   *)
(* calls, the markup strings are the ANSI variants exactly when the color  *)
(* flag is nonzero and the plain ones exactly when it is zero.             *)
C10_Agree ==
    /\ (enable_color # 0) <=>
           /\ info_markup_start_ = kInfoHighlight
           /\ error_markup_start_ = kErrorHighlight
           /\ markup_end_ = kTermReset
    /\ (enable_color = 0) <=>
           /\ info_markup_start_ = PlainInfo
           /\ error_markup_start_ = PlainError
           /\ markup_end_ = PlainEnd

(* C10 amended: the three markup strings are always all ANSI or all plain, *)
(* and they are the ANSI variants whenever the color flag is nonzero (a    *)
(* later Log_init can clear the flag and leave the ANSI strings).          *)
C10_ColorImpliesAnsi ==
    /\ \/ /\ info_markup_start_ = kInfoHighlight
          /\ error_markup_start_ = kErrorHighlight
          /\ markup_end_ = kTermReset
       \/ /\ info_markup_start_ = PlainInfo
          /\ error_markup_start_ = PlainError
          /\ markup_end_ = PlainEnd
    /\ enable_color # 0 => info_markup_start_ = kInfoHighlight
    /\ enable_color \in {0, 1}

C10_Witness ==
    /\ inits = 2 /\ enable_color # 0
    /\ info_markup_start_ = kInfoHighlight
    /\ initArgs.log # "tty"

====
